---- MODULE Spec2Model ----
(***************************************************************************)
(* Task lifecycle of the Browser-Use front-end.                            *)
(*                                                                         *)
(* Part 1: the task poller, the React hook useBrowserTask.  The hook's     *)
(* state (task, loading, error, pollingInterval) is React state: a setter  *)
(* changes the state at once, the callbacks a caller can invoke and the    *)
(* effect cleanups are those of the last committed render, which sees the  *)
(* state as it was when that render ran (the variable rendered).  An async *)
(* handler is one action per segment between its awaits, and every         *)
(* segment works on the values its closure captured when it was called.    *)
(*                                                                         *)
(* Part 2: BrowserUseClient.waitForCompletion, a sequential polling loop.  *)
(*                                                                         *)
(* Part 3: Agent.run, the LLM pipeline, and its answer/step extraction.    *)
(*                                                                         *)
(* Part 4: the page around them: the answers to createTask, the key field  *)
(* ApiKeyInput, the hook useOpenAIBrowserTask, the facade                  *)
(* useBrowserTaskManager and the key the client was built with.            *)
(***************************************************************************)
EXTENDS Naturals, Sequences, FiniteSets, Bags

\* ---------------------------------------------------------------- bounds
\* createTask requests the provider accepts
MaxTasks == 2
\* setInterval calls (timers ever created)
MaxTimers == 2
\* getTaskDetails requests in flight at once
MaxInFlight == 2
\* create/pause/resume/stop requests in flight at once
MaxCalls == 2
\* length of the provider's step list
MaxSteps == 1
\* getTaskStatus requests of one waitForCompletion call
MaxPolls == 4

\* ------------------------------------------------------------- constants
Terminal == {"finished", "failed", "stopped"}
NonTerminal == {"pending", "running", "paused"}
\* useState(null) of pollingInterval; timer handles are 1, 2, ...
NoTimer == 0
\* useState(null) of task, as a record of the fields the model follows
NoTask == [id |-> 0, status |-> "none", steps |-> 0]
\* useState(null) of error
NoError == "null"

\* HTTP statuses a failed createTask is answered with in the tracker runs
CreateFailStatuses == {401, 500}

VARIABLES
  task,             \* useBrowserTask state: TaskDetails | null
  loading,          \* useBrowserTask state
  error,            \* useBrowserTask state
  pollingInterval,  \* useBrowserTask state: the timer handle | null
  rendered,         \* what the last committed render saw of the state
  intervals,        \* every timer created: its taskId and the pollingInterval
                    \* its callback closed over; the handle is the index
  active,           \* handles of the timers not yet cleared
  polls,            \* getTaskDetails requests in flight, with their answer
  calls,            \* create/pause/resume/stop requests in flight (a bag)
  provider,         \* the provider's tasks: status and length of steps
  seenTerminal,     \* timers whose callback has handled terminal details
  seenFailure,      \* timers whose callback has handled a failed request
  wpc,              \* waitForCompletion: position in the loop
  status,           \* waitForCompletion: the local variable status
  result,           \* waitForCompletion: status of the details it returned
  statusRequests,   \* waitForCompletion: getTaskStatus requests issued
  detailsRequests,  \* waitForCompletion: getTaskDetails requests issued
  outstanding,      \* waitForCompletion: requests not yet answered
  observed,         \* waitForCompletion: the statuses its polls were answered with
  remote,           \* waitForCompletion: the provider's status of the task
  apc,              \* Agent.run: position in the pipeline
  steps,            \* Agent: this.steps, the step log
  llmCalls,         \* Agent.run: llm.invoke calls made
  browserTaskDetails, \* Agent.run: what waitForCompletion resolved with
  thrown,           \* Agent.run: message of the error the catch received
  finalAnswerAndSteps, \* Agent.run: the trimmed answer of the second LLM call
  candidate,        \* Agent.run: finalAnswer as lines 153-174 leave it
  reasoningSteps,   \* Agent.run: the local variable reasoningSteps
  returned,         \* Agent.run: the TaskDetails it resolved with
  epc,              \* extractStepsFromResponse called on its own: position
  response,         \* extractStepsFromResponse: its argument
  extracted,        \* extractStepsFromResponse: its return value
  apiKey,           \* Home: the state apiKey, the prop of the hooks
  clientApiKey,     \* BrowserUseClient: this.apiKey, set by the constructor
  sent,             \* the keys of the Authorization headers sent so far
  useOpenAI,        \* Home: the state useOpenAI, the prop of the facade
  usingOpenAI,      \* useBrowserTaskManager: the state usingOpenAI
  executing,        \* useBrowserTaskManager: executeTask calls at their await
  executed,         \* the path each executeTask call ran, with the flag then
  openAITaskDetails, \* useOpenAIBrowserTask: the state taskDetails
  openAILoading,    \* useOpenAIBrowserTask: the state loading
  openAIError,      \* useOpenAIBrowserTask: the state error
  runs,             \* runOpenAIBrowserTask calls not yet settled
  keyInput,         \* ApiKeyInput: the state apiKey, the text of the field
  localStorage,     \* the value stored under 'browserUseApiKey'
  isSaved,          \* ApiKeyInput: the state isSaved
  notified,         \* the keys onApiKeyChange was called with
  hpc,              \* an answer to createTask on its own: position
  httpAnswer,       \* the provider's answer to POST /run-task
  shown             \* the error the hook shows for that answer

hookVars == <<task, loading, error, pollingInterval>>
trackerVars == <<task, loading, error, pollingInterval, rendered, intervals,
                 active, polls, calls, provider, seenTerminal, seenFailure>>
waitVars == <<wpc, status, result, statusRequests, detailsRequests, outstanding,
              observed, remote>>
agentVars == <<apc, steps, llmCalls, browserTaskDetails, thrown,
               finalAnswerAndSteps, candidate, reasoningSteps, returned,
               epc, response, extracted>>
keyVars == <<apiKey, clientApiKey, sent>>
facadeVars == <<useOpenAI, usingOpenAI, executing, executed,
                openAITaskDetails, openAILoading, openAIError, runs>>
inputVars == <<keyInput, localStorage, isSaved, notified>>
answerVars == <<hpc, httpAnswer, shown>>
\* all but the tracker, waitForCompletion and the agent
pageVars == <<keyVars, facadeVars, inputVars, answerVars>>
vars == <<task, loading, error, pollingInterval, rendered, intervals,
          active, polls, calls, provider, seenTerminal, seenFailure,
          wpc, status, result, statusRequests, detailsRequests, outstanding,
          observed, remote,
          apc, steps, llmCalls, browserTaskDetails, thrown,
          finalAnswerAndSteps, candidate, reasoningSteps, returned,
          epc, response, extracted,
          apiKey, clientApiKey, sent,
          useOpenAI, usingOpenAI, executing, executed,
          openAITaskDetails, openAILoading, openAIError, runs,
          keyInput, localStorage, isSaved, notified,
          hpc, httpAnswer, shown>>

\* ------------------------------------------------------------ the tracker
\* What the callbacks of a render read of the state it saw: task?.id and
\* pollingInterval (loading and error are only ever written).
Seen == [id |-> task.id, pollingInterval |-> pollingInterval]

InitTracker ==
  /\ task = NoTask
  /\ loading = FALSE
  /\ error = NoError
  /\ pollingInterval = NoTimer
  /\ rendered = [id |-> 0, pollingInterval |-> NoTimer]
  /\ intervals = << >>
  /\ active = {}
  /\ polls = {}
  /\ calls = EmptyBag
  /\ provider = << >>
  /\ seenTerminal = {}
  /\ seenFailure = {}

InitWait ==
  /\ wpc = "idle"
  /\ status = "none"
  /\ result = "none"
  /\ statusRequests = 0
  /\ detailsRequests = 0
  /\ outstanding = 0
  /\ observed = << >>
  /\ remote = "pending"

\* Agent.run has not been called: no details, no result, no text yet
NoDetails == [status |-> "none", output |-> << >>, steps |-> << >>,
              error |-> << >>]
\* a TaskDetails without an error field
NoErrorInfo == [message |-> << >>, code |-> "none"]
NoResult == [status |-> "none", output |-> << >>, error |-> NoErrorInfo]
InitRun ==
  /\ apc = "idle"
  /\ steps = << >>
  /\ llmCalls = 0
  /\ browserTaskDetails = NoDetails
  /\ thrown = << >>
  /\ finalAnswerAndSteps = << >>
  /\ candidate = << >>
  /\ reasoningSteps = << >>
  /\ returned = NoResult
InitAgent ==
  /\ InitRun
  /\ epc = "idle"
  /\ response = << >>
  /\ extracted = << >>

\* clearInterval(h): a null or already cleared handle changes nothing
ClearInterval(set, h) == set \ {h}

\* A request in flight, with what the handler's closure captured when called.
Call(kind, id, pi) == [kind |-> kind, id |-> id, pollingInterval |-> pi]
InFlight(kind) == {c \in BagToSet(calls) : c.kind = kind}
Remove(c) == calls (-) SetToBag({c})

\* React commits a render: the new render sees the current state, and the
\* effect keyed on [pollingInterval] runs the previous render's cleanup when
\* the value differs from the one that render saw.
Render ==
  /\ rendered # Seen
  /\ rendered' = Seen
  /\ active' = IF rendered.pollingInterval # pollingInterval
                 THEN ClearInterval(active, rendered.pollingInterval)
                 ELSE active
  /\ UNCHANGED <<hookVars, intervals, polls, calls, provider,
                 seenTerminal, seenFailure, waitVars, agentVars, pageVars>>

\* startPolling(taskId), called from a closure that saw pollingInterval = pi:
\* clears pi, creates the timer and stores its handle.
NewTimer == Len(intervals) + 1
StartPollingActive(pi) == ClearInterval(active, pi) \cup {NewTimer}
StartPollingIntervals(taskId, pi) ==
  Append(intervals, [taskId |-> taskId, pollingInterval |-> pi])

\* (requests sent with the key of the current render, for C30)
SendCurrentKey == sent \cup {apiKey}

\* getHeaders: every request carries 'Bearer ' + this.apiKey
Send == sent \cup {clientApiKey}

\* The hook's message for a createTask that threw (HTTP status of the answer).
CreateError(http) ==
  IF http = 401 THEN "Authentication failed: Invalid API key"
  ELSE IF http = 429 THEN "Rate limit exceeded: Too many requests"
  ELSE IF http = 402
    THEN "Insufficient credits: Please check your Browser-Use account balance"
  ELSE "Failed to create task: <message>"

\* createTask, up to the await of client.createTask, as the facade calls it
\* (the facade's own state is left to the caller)
StandardCreateTask(apiKeyOk, taskOk) ==
  /\ IF ~apiKeyOk
       THEN /\ error' = "Failed to create task: API key is missing or invalid"
            /\ loading' = FALSE
            /\ calls' = calls
     ELSE IF ~taskOk
       THEN /\ error' = "Failed to create task: Task description is required"
            /\ loading' = FALSE
            /\ calls' = calls
     ELSE IF clientApiKey = << >>
       THEN /\ error' = "Failed to create task: API key is missing or empty"
            /\ loading' = FALSE
            /\ calls' = calls
     ELSE /\ BagCardinality(calls) < MaxCalls
          /\ error' = NoError
          /\ loading' = TRUE
          /\ calls' = calls (+)
               SetToBag({Call("create", 0, rendered.pollingInterval)})
  /\ sent' = IF apiKeyOk /\ taskOk /\ clientApiKey # << >>
              THEN Send ELSE sent
  /\ UNCHANGED <<task, pollingInterval, rendered, intervals, active, polls,
                 provider, seenTerminal, seenFailure, waitVars, agentVars,
                 apiKey, clientApiKey, inputVars, answerVars>>
\* createTask called on the tracker itself
CreateTask(apiKeyOk, taskOk) ==
  StandardCreateTask(apiKeyOk, taskOk) /\ UNCHANGED facadeVars

\* createTask after the await: the provider accepted the task
CreateTaskOk(c) ==
  /\ c \in InFlight("create")
  /\ Len(provider) < MaxTasks
  /\ Len(intervals) < MaxTimers
  /\ provider' = Append(provider, [status |-> "pending", steps |-> 0])
  /\ task' = [id |-> Len(provider) + 1, status |-> "pending", steps |-> 0]
  /\ active' = StartPollingActive(c.pollingInterval)
  /\ intervals' = StartPollingIntervals(Len(provider) + 1, c.pollingInterval)
  /\ pollingInterval' = NewTimer
  /\ loading' = FALSE
  /\ calls' = Remove(c)
  /\ UNCHANGED <<error, rendered, polls, seenTerminal, seenFailure, waitVars, agentVars, pageVars>>

\* createTask after the await: client.createTask threw
CreateTaskFail(c, http) ==
  /\ c \in InFlight("create")
  /\ error' = CreateError(http)
  /\ loading' = FALSE
  /\ calls' = Remove(c)
  /\ UNCHANGED <<task, pollingInterval, rendered, intervals, active, polls,
                 provider, seenTerminal, seenFailure, waitVars, agentVars, pageVars>>

\* The provider works on its tasks on its own: it starts a pending task,
\* appends steps while the task runs, and ends it.  The step list only grows
\* and is frozen once the task is terminal (or while it is paused).  Its
\* work shows only in its answers, so the model lets it advance when a
\* request reaches it: Progress(s) is every state it may have reached from s.
Progress(s) ==
  IF s.status \in {"pending", "running"}
    THEN {s} \cup {[status |-> st, steps |-> n] :
                     st \in {"running", "finished", "failed"},
                     n \in s.steps .. MaxSteps}
    ELSE {s}

\* The interval callback up to its await: timer t fires and requests the
\* details, which the provider answers with its state of that moment.
Details(id, s) == [id |-> id, status |-> s.status, steps |-> s.steps]
Tick(t) ==
  /\ t \in active
  /\ Cardinality(polls) < MaxInFlight
  /\ \E s \in Progress(provider[intervals[t].taskId]) :
       /\ provider' = [provider EXCEPT ![intervals[t].taskId] = s]
       /\ polls' = polls \cup {[timer |-> t, details |-> Details(intervals[t].taskId, s)]}
  /\ sent' = Send
  /\ UNCHANGED <<hookVars, rendered, intervals, active, calls,
                 seenTerminal, seenFailure, waitVars, agentVars,
                 apiKey, clientApiKey, facadeVars, inputVars, answerVars>>

\* if (pollingInterval) { clearInterval(pollingInterval); setPollingInterval(null) }
\* in the callback of timer t: pollingInterval is the value startPolling saw.
CallbackSees(t) == intervals[t].pollingInterval
CallbackActive(t) ==
  IF CallbackSees(t) # NoTimer THEN ClearInterval(active, CallbackSees(t)) ELSE active
CallbackPollingInterval(t) ==
  IF CallbackSees(t) # NoTimer THEN NoTimer ELSE pollingInterval

\* The interval callback after the await: the details arrived
PollOk(p) ==
  /\ p \in polls
  /\ polls' = polls \ {p}
  /\ task' = p.details
  /\ IF p.details.status \in Terminal
       THEN /\ active' = CallbackActive(p.timer)
            /\ pollingInterval' = CallbackPollingInterval(p.timer)
            /\ seenTerminal' = seenTerminal \cup {p.timer}
       ELSE UNCHANGED <<active, pollingInterval, seenTerminal>>
  /\ UNCHANGED <<loading, error, rendered, intervals, calls, provider,
                 seenFailure, waitVars, agentVars, pageVars>>

\* The interval callback after the await: getTaskDetails threw
PollFail(p) ==
  /\ p \in polls
  /\ polls' = polls \ {p}
  /\ error' = "Failed to get task updates"
  /\ active' = CallbackActive(p.timer)
  /\ pollingInterval' = CallbackPollingInterval(p.timer)
  /\ seenFailure' = seenFailure \cup {p.timer}
  /\ UNCHANGED <<task, loading, rendered, intervals, calls, provider,
                 seenTerminal, waitVars, agentVars, pageVars>>

\* setTask(prev => prev ? { ...prev, status } : null)
PatchStatus(prev, st) == IF prev = NoTask THEN NoTask ELSE [prev EXCEPT !.status = st]

\* What the provider does with a control request it answers with success:
\* it is the source of truth, an illegal transition leaves its task alone.
ProviderAfter(kind, id, s) ==
  LET st == s.status
      to == IF kind = "pause" /\ st = "running" THEN "paused"
            ELSE IF kind = "resume" /\ st = "paused" THEN "running"
            ELSE IF kind = "stop" /\ st \in NonTerminal THEN "stopped"
            ELSE st
  IN [provider EXCEPT ![id] = [s EXCEPT !.status = to]]

\* pauseTask / resumeTask / stopTask up to the await of the client call
NoActiveTask(kind) ==
  IF kind = "pause" THEN "No active task to pause"
  ELSE IF kind = "resume" THEN "No active task to resume"
  ELSE "No active task to stop"
\* (Control with the status patched before the await, for C4)
Patched(kind) ==
  IF kind = "pause" THEN "paused" ELSE IF kind = "resume" THEN "running" ELSE "stopped"
ControlOptimistic(kind) ==
  /\ IF rendered.id = 0
       THEN /\ error' = NoActiveTask(kind)
            /\ UNCHANGED <<loading, calls, task>>
       ELSE /\ BagCardinality(calls) < MaxCalls
            /\ loading' = TRUE
            /\ calls' = calls (+)
                 SetToBag({Call(kind, rendered.id, rendered.pollingInterval)})
            /\ error' = error
            /\ task' = PatchStatus(task, Patched(kind))
  /\ sent' = IF rendered.id = 0 THEN sent ELSE Send
  /\ UNCHANGED <<pollingInterval, rendered, intervals, active, polls,
                 provider, seenTerminal, seenFailure, waitVars, agentVars,
                 apiKey, clientApiKey, facadeVars, inputVars, answerVars>>
Control(kind) ==
  /\ IF rendered.id = 0
       THEN /\ error' = NoActiveTask(kind)
            /\ UNCHANGED <<loading, calls>>
       ELSE /\ BagCardinality(calls) < MaxCalls
            /\ loading' = TRUE
            /\ calls' = calls (+)
                 SetToBag({Call(kind, rendered.id, rendered.pollingInterval)})
            /\ error' = error
  /\ sent' = IF rendered.id = 0 THEN sent ELSE Send
  /\ UNCHANGED <<task, pollingInterval, rendered, intervals, active, polls,
                 provider, seenTerminal, seenFailure, waitVars, agentVars,
                 apiKey, clientApiKey, facadeVars, inputVars, answerVars>>
PauseTask == Control("pause")
ResumeTask == Control("resume")
StopTask == Control("stop")

\* pauseTask after the await: the request succeeded
PauseTaskOk(c) ==
  /\ c \in InFlight("pause")
  /\ calls' = Remove(c)
  /\ \E s \in Progress(provider[c.id]) : provider' = ProviderAfter("pause", c.id, s)
  /\ task' = PatchStatus(task, "paused")
  /\ loading' = FALSE
  /\ UNCHANGED <<error, pollingInterval, rendered, intervals, active, polls,
                 seenTerminal, seenFailure, waitVars, agentVars, pageVars>>

\* resumeTask after the await: if (!pollingInterval) startPolling(task.id),
\* both read from the closure of the render resumeTask was called from.
ResumeRestarts(c) == c.pollingInterval = NoTimer
ResumeTaskOk(c) ==
  /\ c \in InFlight("resume")
  /\ calls' = Remove(c)
  /\ \E s \in Progress(provider[c.id]) : provider' = ProviderAfter("resume", c.id, s)
  /\ task' = PatchStatus(task, "running")
  /\ IF ResumeRestarts(c)
       THEN /\ Len(intervals) < MaxTimers
            /\ active' = StartPollingActive(c.pollingInterval)
            /\ intervals' = StartPollingIntervals(c.id, c.pollingInterval)
            /\ pollingInterval' = NewTimer
       ELSE UNCHANGED <<active, intervals, pollingInterval>>
  /\ loading' = FALSE
  /\ UNCHANGED <<error, rendered, polls, seenTerminal, seenFailure, waitVars, agentVars, pageVars>>

\* stopTask after the await: the request succeeded
StopTaskOk(c) ==
  /\ c \in InFlight("stop")
  /\ calls' = Remove(c)
  /\ \E s \in Progress(provider[c.id]) : provider' = ProviderAfter("stop", c.id, s)
  /\ task' = PatchStatus(task, "stopped")
  /\ IF c.pollingInterval # NoTimer
       THEN /\ active' = ClearInterval(active, c.pollingInterval)
            /\ pollingInterval' = NoTimer
       ELSE UNCHANGED <<active, pollingInterval>>
  /\ loading' = FALSE
  /\ UNCHANGED <<error, rendered, intervals, polls, seenTerminal, seenFailure,
                 waitVars, agentVars, pageVars>>

\* pauseTask / resumeTask / stopTask after the await: the request threw
ControlError(kind) ==
  IF kind = "pause" THEN "Failed to pause task"
  ELSE IF kind = "resume" THEN "Failed to resume task"
  ELSE "Failed to stop task"
\* (a failed control that gives up the timer, for C29)
ControlFailStopsPolling(c) ==
  /\ c \in BagToSet(calls)
  /\ c.kind # "create"
  /\ calls' = Remove(c)
  /\ error' = ControlError(c.kind)
  /\ loading' = FALSE
  /\ active' = ClearInterval(active, c.pollingInterval)
  /\ pollingInterval' = NoTimer
  /\ UNCHANGED <<task, rendered, intervals, polls,
                 provider, seenTerminal, seenFailure, waitVars, agentVars, pageVars>>
ControlFail(c) ==
  /\ c \in BagToSet(calls)
  /\ c.kind # "create"
  /\ calls' = Remove(c)
  /\ error' = ControlError(c.kind)
  /\ loading' = FALSE
  /\ UNCHANGED <<task, pollingInterval, rendered, intervals, active, polls,
                 provider, seenTerminal, seenFailure, waitVars, agentVars, pageVars>>

\* clearTask
ClearTask ==
  /\ task' = NoTask
  /\ error' = NoError
  /\ IF rendered.pollingInterval # NoTimer
       THEN /\ active' = ClearInterval(active, rendered.pollingInterval)
            /\ pollingInterval' = NoTimer
       ELSE UNCHANGED <<active, pollingInterval>>
  /\ UNCHANGED <<loading, rendered, intervals, polls, calls, provider,
                 seenTerminal, seenFailure, waitVars, agentVars, pageVars>>

\* The page as it starts: the client was built with the key of the first
\* render (already trimmed by the constructor), nothing has been sent, the
\* facade took its mode from the flag of the first render, the key field is
\* empty and nothing is stored.
ScenarioKey == <<"b", "u", "_", "A", "b", "C", "1", "2", "3", "4", "5", "6",
                 "7", "8">>
NoItem == <<"null">>
NoAnswer == [status |-> 0, statusText |-> << >>, body |-> << >>]
InitKeys ==
  /\ apiKey = ScenarioKey
  /\ clientApiKey = ScenarioKey
  /\ sent = {}
InitManager ==
  /\ useOpenAI = FALSE
  /\ usingOpenAI = useOpenAI
  /\ executing = {}
  /\ executed = {}
  /\ openAITaskDetails = NoTask
  /\ openAILoading = FALSE
  /\ openAIError = NoError
  /\ runs = 0
InitInput ==
  /\ keyInput = << >>
  /\ localStorage = NoItem
  /\ isSaved = FALSE
  /\ notified = {}
InitAnswer ==
  /\ hpc = "idle"
  /\ httpAnswer = NoAnswer
  /\ shown = << >>
InitPage == InitKeys /\ InitManager /\ InitInput /\ InitAnswer

Init == InitTracker /\ InitWait /\ InitAgent /\ InitPage

\* The tracker with every handler callable at any time, every request free
\* to fail and any number of requests outstanding (within the bounds).
NextTracker ==
  \/ Render
  \/ \E k \in BOOLEAN, t \in BOOLEAN : CreateTask(k, t)
  \/ \E c \in BagToSet(calls) : CreateTaskOk(c)
  \/ \E c \in BagToSet(calls), h \in CreateFailStatuses : CreateTaskFail(c, h)
  \/ \E t \in active : Tick(t)
  \/ \E p \in polls : PollOk(p)
  \/ \E p \in polls : PollFail(p)
  \/ PauseTask
  \/ ResumeTask
  \/ StopTask
  \/ \E c \in BagToSet(calls) : PauseTaskOk(c)
  \/ \E c \in BagToSet(calls) : ResumeTaskOk(c)
  \/ \E c \in BagToSet(calls) : StopTaskOk(c)
  \/ \E c \in BagToSet(calls) : ControlFail(c)
  \/ ClearTask

\* Environments of the tracker.  Each is the tracker above with the caller
\* and the network restricted, so every behaviour of one is a behaviour of
\* the tracker.
\*   FirstCreateTaskOk: the provider accepts one task only
\*   TickInTurn: the timer fires only while no getTaskDetails is outstanding
\*   ControlOnTask: pause/resume/stop are called only once a task is shown
FirstCreateTaskOk(c) == provider = << >> /\ CreateTaskOk(c)
TickInTurn(t) == polls = {} /\ Tick(t)
ControlOnTask(kind) == rendered.id # 0 /\ Control(kind)

\* One task, polled with overlapping requests; no pause/resume/stop.
NextPoll ==
  \/ Render
  \/ \E k \in BOOLEAN, t \in BOOLEAN : CreateTask(k, t)
  \/ \E c \in BagToSet(calls) : FirstCreateTaskOk(c)
  \/ \E c \in BagToSet(calls), h \in CreateFailStatuses : CreateTaskFail(c, h)
  \/ \E t \in active : Tick(t)
  \/ \E p \in polls : PollOk(p)
  \/ \E p \in polls : PollFail(p)
  \/ ClearTask
SpecPoll == Init /\ [][NextPoll]_vars

\* Several tasks, created with overlapping createTask calls; every request
\* succeeds.
NextCreate ==
  \/ Render
  \/ CreateTask(TRUE, TRUE)
  \/ \E c \in BagToSet(calls) : CreateTaskOk(c)
  \/ \E t \in active : TickInTurn(t)
  \/ \E p \in polls : PollOk(p)
  \/ ClearTask
SpecCreate == Init /\ [][NextCreate]_vars

\* One task, paused, resumed and stopped with overlapping calls; every
\* request succeeds.
NextControl ==
  \/ Render
  \/ CreateTask(TRUE, TRUE)
  \/ \E c \in BagToSet(calls) : FirstCreateTaskOk(c)
  \/ \E t \in active : TickInTurn(t)
  \/ \E p \in polls : PollOk(p)
  \/ ControlOnTask("pause")
  \/ ControlOnTask("resume")
  \/ ControlOnTask("stop")
  \/ \E c \in BagToSet(calls) : PauseTaskOk(c)
  \/ \E c \in BagToSet(calls) : ResumeTaskOk(c)
  \/ \E c \in BagToSet(calls) : StopTaskOk(c)
  \/ ClearTask
SpecControl == Init /\ [][NextControl]_vars

\* ------------------------------------------------- waitForCompletion
\* The status the provider may report next: a terminal status is final.
RemoteProgress(st) == IF st \in Terminal THEN {st} ELSE NonTerminal \cup Terminal

\* ['finished', 'failed', 'stopped'].includes(status)
WaitDoneWithoutStopped(st) == st \in {"finished", "failed"}
WaitDone(st) == st \in Terminal

\* waitForCompletion(taskId) is called: the loop issues its first getTaskStatus
WaitForCompletion ==
  /\ wpc = "idle"
  /\ wpc' = "getTaskStatus"
  /\ statusRequests' = statusRequests + 1
  /\ outstanding' = outstanding + 1
  /\ UNCHANGED <<status, result, detailsRequests, observed, remote, trackerVars, agentVars, pageVars>>

\* getTaskStatus answers st: on a terminal status the loop returns
\* getTaskDetails(taskId), issuing that request; otherwise it sleeps.
GetTaskStatusOk(st) ==
  /\ wpc = "getTaskStatus"
  /\ st \in RemoteProgress(remote)
  /\ remote' = st
  /\ status' = st
  /\ observed' = Append(observed, st)
  /\ IF WaitDone(st)
       THEN /\ wpc' = "getTaskDetails"
            /\ detailsRequests' = detailsRequests + 1
            /\ outstanding' = outstanding
       ELSE /\ wpc' = "sleep"
            /\ detailsRequests' = detailsRequests
            /\ outstanding' = outstanding - 1
  /\ UNCHANGED <<result, statusRequests, trackerVars, agentVars, pageVars>>

\* A failed getTaskStatus is swallowed and the loop polls again (for C10)
GetTaskStatusFailRetries ==
  /\ wpc = "getTaskStatus"
  /\ wpc' = "sleep"
  /\ outstanding' = outstanding - 1
  /\ UNCHANGED <<status, result, statusRequests, detailsRequests, observed,
                 remote, trackerVars, agentVars, pageVars>>
\* getTaskStatus throws: the await rethrows out of waitForCompletion
GetTaskStatusFail ==
  /\ wpc = "getTaskStatus"
  /\ wpc' = "rejected"
  /\ outstanding' = outstanding - 1
  /\ UNCHANGED <<status, result, statusRequests, detailsRequests, observed,
                 remote, trackerVars, agentVars, pageVars>>

\* The loop gives up after two polls (for C9)
WakeOrGiveUp ==
  /\ wpc = "sleep"
  /\ IF statusRequests < 2
       THEN /\ statusRequests < MaxPolls
            /\ wpc' = "getTaskStatus"
            /\ statusRequests' = statusRequests + 1
            /\ outstanding' = outstanding + 1
       ELSE /\ wpc' = "rejected"
            /\ UNCHANGED <<statusRequests, outstanding>>
  /\ UNCHANGED <<status, result, detailsRequests, observed, remote, trackerVars, agentVars, pageVars>>
\* setTimeout(resolve, pollIntervalMs) fires: do ... while (true) polls again
Wake ==
  /\ wpc = "sleep"
  /\ statusRequests < MaxPolls
  /\ wpc' = "getTaskStatus"
  /\ statusRequests' = statusRequests + 1
  /\ outstanding' = outstanding + 1
  /\ UNCHANGED <<status, result, detailsRequests, observed, remote, trackerVars, agentVars, pageVars>>

\* getTaskDetails answers: its result is what waitForCompletion returns
GetTaskDetailsOk ==
  /\ wpc = "getTaskDetails"
  /\ wpc' = "returned"
  /\ result' = remote
  /\ outstanding' = outstanding - 1
  /\ UNCHANGED <<status, statusRequests, detailsRequests, observed, remote,
                 trackerVars, agentVars, pageVars>>

\* getTaskDetails throws: the returned promise rejects
GetTaskDetailsFail ==
  /\ wpc = "getTaskDetails"
  /\ wpc' = "rejected"
  /\ outstanding' = outstanding - 1
  /\ UNCHANGED <<status, result, statusRequests, detailsRequests, observed,
                 remote, trackerVars, agentVars, pageVars>>

NextWait ==
  \/ WaitForCompletion
  \/ \E st \in NonTerminal \cup Terminal : GetTaskStatusOk(st)
  \/ GetTaskStatusFail
  \/ Wake
  \/ GetTaskDetailsOk
  \/ GetTaskDetailsFail
SpecWait == Init /\ [][NextWait]_vars

\* Every request succeeds and the provider reports a terminal status at the
\* poll numbered MaxPolls at the latest; the event loop runs whatever is due.
InTime(st) == statusRequests = MaxPolls => st \in Terminal
NextWaitOk ==
  \/ WaitForCompletion
  \/ \E st \in NonTerminal \cup Terminal : InTime(st) /\ GetTaskStatusOk(st)
  \/ Wake
  \/ GetTaskDetailsOk
FairSpecWait == Init /\ [][NextWaitOk]_vars /\ WF_vars(NextWaitOk)


\* ------------------------------------------------------ claims, the tracker
\* React has committed every state update made so far
Committed == rendered = Seen

\* C1: once the callback of a timer has handled details with a terminal
\* status (and React has committed the state it set), that timer is
\* cancelled, so it requests no further details; this also for the timer of
\* the first task of a fresh tracker.
C1_TerminalStopsPolling ==
  Committed => \A t \in seenTerminal : t \notin active

\* C2: whenever React has committed every state update, at most one polling
\* timer is active, createTask calls overlapping or not.
C2_AtMostOneTimer ==
  Committed => Cardinality(active) <= 1

\* C3: once the callback of a timer has handled a failed getTaskDetails
\* request (and React has committed the state it set), that timer is
\* cancelled: polling halts, there is no retry.
C3_PollFailureHalts ==
  Committed => \A t \in seenFailure : t \notin active

\* C5: once the held task is terminal, no event other than a call of the
\* caller changes its record until clearTask drops it; stated for the case
\* the claim singles out: no response of a poll that was in flight puts a
\* non-terminal status back.
C5_TerminalImmutable ==
  [][(task.status \in Terminal /\ calls' = calls)
       => (task'.status \in Terminal \/ task' = NoTask)]_vars

\* C6: over the snapshots published for one task the length of steps never
\* decreases, and it stays the same once a terminal snapshot is published.
C6_StepsMonotone ==
  [][(task.id # 0 /\ task'.id = task.id)
       => /\ task'.steps >= task.steps
          /\ (task.status \in Terminal => task'.steps = task.steps)]_vars

\* C7: when a resumeTask request succeeds while the tracker holds no polling
\* timer, a timer for the held task is active afterwards and is the one the
\* tracker holds; when it holds a timer, no further timer is created.
C7_ResumeRestartsPolling ==
  [][\A c \in InFlight("resume") :
       (ResumeTaskOk(c) /\ task # NoTask)
         => IF pollingInterval = NoTimer
              THEN /\ pollingInterval' \in active'
                   /\ intervals'[pollingInterval'].taskId = task'.id
              ELSE intervals' = intervals]_vars

\* C4 as claimed: the step of pauseTask / resumeTask / stopTask that issues
\* the remote request has already set the held task's status.
ControlKinds == {"pause", "resume", "stop"}
C4_StatusBeforeRemote ==
  [][\A k \in ControlKinds :
       (ControlOnTask(k) /\ task # NoTask) => task'.status = Patched(k)]_vars

\* C4 as amended: a step that issues a remote request leaves the held task
\* as it is, and the step in which the pause / resume / stop request
\* resolves with success sets the held task's status.
C4_StatusAfterRemote ==
  [][/\ BagCardinality(calls') > BagCardinality(calls) => task' = task
     /\ \A c \in BagToSet(calls) :
          /\ (PauseTaskOk(c) /\ task # NoTask) => task'.status = "paused"
          /\ (ResumeTaskOk(c) /\ task # NoTask) => task'.status = "running"
          /\ (StopTaskOk(c) /\ task # NoTask) => task'.status = "stopped"]_vars
\* a pause request is in flight and the held task still shows it running
C4_Witness ==
  \E c \in InFlight("pause") : task.id = c.id /\ task.status = "running"

\* ------------------------------------------- claims, waitForCompletion
\* C8: if the first terminal status is the answer to poll k, the call has
\* issued exactly k getTaskStatus requests, one at a time, and exactly one
\* getTaskDetails request, in that state and in every later one (so none is
\* issued after it returned), and what it returns is that answer.
C8_ExactlyKPolls ==
  /\ outstanding <= 1
  /\ statusRequests \in {Len(observed), Len(observed) + 1}
  /\ \A k \in 1 .. Len(observed) :
       observed[k] \in Terminal
         => /\ k = Len(observed)
            /\ statusRequests = k
            /\ detailsRequests = 1
  /\ (\A k \in 1 .. Len(observed) : observed[k] \notin Terminal)
       => detailsRequests = 0
  /\ wpc = "returned"
       => /\ Len(observed) > 0
          /\ observed[Len(observed)] \in Terminal
          /\ result = observed[Len(observed)]
          /\ outstanding = 0
\* Scenario C: pending, running, finished over three polls, then returned
C8_Witness ==
  /\ wpc = "returned"
  /\ observed = <<"pending", "running", "finished">>
  /\ result = "finished"

\* C9: when every request succeeds and the provider reports a terminal
\* status at some poll, the call returns; it returns only after a terminal
\* status, and after every other answer it polls again, whatever the number
\* of polls so far.
C9_PollsUntilTerminal ==
  /\ <>(wpc = "returned")
  /\ [](wpc = "returned" => status \in Terminal)
  /\ [](wpc = "sleep" => ENABLED Wake)
\* returned after three polls or more
C9_Witness == wpc = "returned" /\ Len(observed) >= 3

\* C10: once a getTaskStatus request or the getTaskDetails request has
\* failed (it was issued, got no answer and is not outstanding), the call
\* has rejected, nothing is outstanding and no further step, so no further
\* request, is possible.
FailedStatus == statusRequests > Len(observed) /\ wpc # "getTaskStatus"
FailedDetails == detailsRequests > 0 /\ wpc \notin {"getTaskDetails", "returned"}
C10_FailureRejects ==
  (FailedStatus \/ FailedDetails)
    => /\ wpc = "rejected"
       /\ outstanding = 0
       /\ ~ENABLED NextWait
\* the second poll failed
C10_Witness ==
  wpc = "rejected" /\ statusRequests = 2 /\ Len(observed) = 1

\* ============================================================ Part 3
\* Agent (openai-model.ts): the LLM pipeline Agent.run and the answer/step
\* extraction.  A JavaScript string is a sequence of one-character strings;
\* an occurrence of a header phrase of reasoningHeaderRegex, in whatever
\* letter case, is one symbol of the sequence.  Agent.run is called once on
\* an agent (runOpenAIBrowserTask builds a new agent for every run).

\* ---------------------------------------------------------------- bounds
\* lines of a response of the language model
MaxLines == 3
\* steps of the remote task
MaxRemoteSteps == 2

\* -------------------------------------------------------------- the texts
\* \s of a regular expression, and what trim() removes
Whitespace == {" ", "\n", "\t"}
\* \d
Digits == {"0", "1", "2", "3", "4", "5", "6", "7", "8", "9"}
\* occurrences of /reasoning steps:|key steps:|steps taken:/i
Headers == {"reasoning steps:", "Reasoning steps:", "REASONING STEPS:",
            "key steps:", "Key steps:", "steps taken:", "Steps Taken:"}

RECURSIVE TrimStart(_)
TrimStart(s) ==
  IF s # << >> /\ Head(s) \in Whitespace THEN TrimStart(Tail(s)) ELSE s
RECURSIVE TrimEnd(_)
TrimEnd(s) ==
  IF s # << >> /\ s[Len(s)] \in Whitespace
  THEN TrimEnd(SubSeq(s, 1, Len(s) - 1)) ELSE s
\* String.prototype.trim
Trim(s) == TrimEnd(TrimStart(s))

\* String.prototype.indexOf, counted from 1; 0 when pat does not occur
IndexOf(s, pat) ==
  IF Len(pat) > Len(s) THEN 0
  ELSE LET hits == {i \in 1 .. (Len(s) + 1 - Len(pat)) :
                      SubSeq(s, i, i + Len(pat) - 1) = pat}
       IN IF hits = {} THEN 0
          ELSE CHOOSE i \in hits : \A j \in hits : i <= j

\* s.replace(pat, ""): the first occurrence of the string pat is removed
Replace(s, pat) ==
  LET i == IndexOf(s, pat)
  IN IF i = 0 THEN s
     ELSE SubSeq(s, 1, i - 1) \o SubSeq(s, i + Len(pat), Len(s))

\* s.split(sep) for a non-empty string sep
RECURSIVE Split(_, _)
Split(s, sep) ==
  LET i == IndexOf(s, sep)
  IN IF i = 0 THEN << s >>
     ELSE << SubSeq(s, 1, i - 1) >>
          \o Split(SubSeq(s, i + Len(sep), Len(s)), sep)

\* parts.join(sep)
RECURSIVE Join(_, _)
Join(parts, sep) ==
  IF parts = << >> THEN << >>
  ELSE IF Len(parts) = 1 THEN parts[1]
  ELSE parts[1] \o sep \o Join(Tail(parts), sep)

\* startStepRegex.test(s): /^(?:\d+[\.\)]\s+|[-*]\s+)/
startStepRegex(s) ==
  \/ /\ Len(s) >= 2
     /\ s[1] \in {"-", "*"}
     /\ s[2] \in Whitespace
  \/ \E k \in 1 .. Len(s) :
       /\ \A j \in 1 .. k : s[j] \in Digits
       /\ Len(s) >= k + 2
       /\ s[k + 1] \in {".", ")"}
       /\ s[k + 2] \in Whitespace

\* the loop of extractStepsFromResponse over the lines
RECURSIVE ScanLines(_, _, _, _)
ScanLines(lines, acc, currentStep, inStep) ==
  IF lines = << >>
  THEN [steps |-> acc, currentStep |-> currentStep, inStep |-> inStep]
  ELSE LET line == Head(lines)
       IN IF startStepRegex(line)
          THEN ScanLines(Tail(lines),
                         IF inStep /\ Trim(currentStep) # << >>
                         THEN Append(acc, Trim(currentStep)) ELSE acc,
                         line, TRUE)
          ELSE IF inStep
          THEN ScanLines(Tail(lines), acc,
                         currentStep \o << " " >> \o line, TRUE)
          ELSE ScanLines(Tail(lines), acc, currentStep, inStep)

\* mutation of LineSteps: the step still open after the last line is lost
LineStepsWithoutLast(r) ==
  ScanLines(Split(r, << "\n" >>), << >>, << >>, FALSE).steps

\* the steps the loop found, the last open step included
LineSteps(r) ==
  LET scan == ScanLines(Split(r, << "\n" >>), << >>, << >>, FALSE)
  IN IF scan.inStep /\ Trim(scan.currentStep) # << >>
     THEN Append(scan.steps, Trim(scan.currentStep))
     ELSE scan.steps

\* response.split('\n\n').filter(p => p.trim().length > 0).map(p => p.trim())
Paragraphs(r) ==
  LET kept == SelectSeq(Split(r, << "\n", "\n" >>),
                        LAMBDA p : Trim(p) # << >>)
  IN [i \in 1 .. Len(kept) |-> Trim(kept[i])]

\* mutation of extractStepsFromResponse: no paragraph fallback
extractStepsWithoutFallback(r) ==
  IF r = << >> THEN << >> ELSE LineSteps(r)

extractStepsFromResponse(r) ==
  IF r = << >> THEN << >>
  ELSE LET st == LineSteps(r)
       IN IF st = << >> THEN Paragraphs(r) ELSE st

\* ------------------------------------- extractStepsFromResponse on its own
\* the shapes of the lines of a response
LineShapes ==
  { << >>, << " " >>, << "a" >>, << "b", " " >>,
    << "-", " ", "a" >>, << "*", " ", "b" >>,
    << "1", ".", " ", "a" >>, << "1", "2", ")", " ", "b" >>,
    << "-", "a" >>, << "1", ".", "a" >>, << "-", " " >>,
    << " ", "-", " ", "a" >>,
    << "Reasoning steps:" >>, << "a", " ", "KEY STEPS:", " ", "-", " ", "b" >> }

\* Scenario A: "The answer is 42.\n\nReasoning steps:\n1. Searched web\n2. Read page"
ScenarioA ==
  << "T", "h", "e", " ", "a", "n", "s", "w", "e", "r", " ", "i", "s", " ",
     "4", "2", ".", "\n", "\n", "Reasoning steps:", "\n",
     "1", ".", " ", "S", "e", "a", "r", "c", "h", "e", "d", " ", "w", "e", "b",
     "\n", "2", ".", " ", "R", "e", "a", "d", " ", "p", "a", "g", "e" >>
\* Scenario B: "Just a plain answer."
ScenarioB ==
  << "J", "u", "s", "t", " ", "a", " ", "p", "l", "a", "i", "n", " ",
     "a", "n", "s", "w", "e", "r", "." >>

\* the texts of at most MaxLines lines, and the two scenarios
Texts ==
  { Join(ls, << "\n" >>) :
      ls \in UNION { [1 .. n -> LineShapes] : n \in 0 .. MaxLines } }
  \cup {ScenarioA, ScenarioB}

InitExtract ==
  /\ InitTracker /\ InitWait /\ InitRun /\ InitPage
  /\ epc = "called"
  /\ response \in Texts
  /\ extracted = << >>

ExtractStepsFromResponse ==
  /\ epc = "called"
  /\ epc' = "returned"
  /\ extracted' = extractStepsFromResponse(response)
  /\ UNCHANGED <<response, apc, steps, llmCalls, browserTaskDetails, thrown,
                 finalAnswerAndSteps, candidate, reasoningSteps, returned,
                 trackerVars, waitVars, pageVars>>

NextExtract == ExtractStepsFromResponse
SpecExtract == InitExtract /\ [][NextExtract]_vars

\* ------------------------------------------- claims, the step extraction
\* the lines of the argument, and those that begin a step as the claims word
\* it: digits followed by '.' or ')' and whitespace, or '-' or '*' followed
\* by whitespace, at the start of the line
ResponseLines == Split(response, << "\n" >>)
LeadingDigits(line) ==
  Cardinality({k \in 1 .. Len(line) : \A j \in 1 .. k : line[j] \in Digits})
HasStepPrefix(line) ==
  LET d == LeadingDigits(line)
      mark == IF d > 0 THEN {".", ")"} ELSE {"-", "*"}
  IN /\ Len(line) >= d + 2
     /\ line[d + 1] \in mark
     /\ line[d + 2] \in Whitespace
Matching == {i \in 1 .. Len(ResponseLines) : HasStepPrefix(ResponseLines[i])}
\* the n-th matching line, and the lines from it up to the next match
NthMatch(n) ==
  CHOOSE i \in Matching : Cardinality({j \in Matching : j <= i}) = n
LineGroup(n) ==
  SubSeq(ResponseLines, NthMatch(n),
         IF n = Cardinality(Matching) THEN Len(ResponseLines)
         ELSE NthMatch(n + 1) - 1)

\* C18 as stated: with at least one matching line there is one step per
\* matching line, and each step is its matching line followed by the
\* non-matching lines up to the next match, joined by spaces; so no line is
\* divided between two steps and the lines before the first match are in none.
C18_StepsAreLineGroups ==
  (epc = "returned" /\ Matching # {})
    => /\ Len(extracted) = Cardinality(Matching)
       /\ \A n \in 1 .. Len(extracted) :
            extracted[n] = Join(LineGroup(n), << " " >>)

\* C18 amended: the same, each step with the whitespace at its ends removed.
C18_StepsAreTrimmedLineGroups ==
  (epc = "returned" /\ Matching # {})
    => /\ Len(extracted) = Cardinality(Matching)
       /\ \A n \in 1 .. Len(extracted) :
            extracted[n] = Trim(Join(LineGroup(n), << " " >>))

\* a step of two lines, then a second step
C18_Witness ==
  /\ epc = "returned"
  /\ response = << "-", " ", "a", "\n", "a", "\n", "*", " ", "b" >>
  /\ extracted = << << "-", " ", "a", " ", "a" >>, << "*", " ", "b" >> >>

\* C20: extractStepsFromResponse returns for every string, returns the empty
\* list for the empty string, and returns the empty list only for a string
\* of nothing but whitespace.
C20_ExtractTotal ==
  /\ epc \in {"idle", "called", "returned"}
  /\ epc = "returned"
       => /\ response = << >> => extracted = << >>
          /\ extracted = << >> <=> Trim(response) = << >>

\* the empty string, answered with the empty list
C20_Witness ==
  epc = "returned" /\ response = << >> /\ extracted = << >>

\* ------------------------------------------------------------- Agent.run
\* One entry of the step log.  The action of an entry addStep names with a
\* template (`browser_use_step_${i}`, `reasoning_step_${i}`) is the fixed part
\* and the number i; index is 0 for the other entries.
Step(action, index, description) ==
  [action |-> action, index |-> index, description |-> description]
addStep(log, action, index, description) ==
  Append(log, Step(action, index, description))

\* finalAnswerAndSteps.split(reasoningHeaderRegex)
RECURSIVE SplitByReasoning(_)
SplitByReasoning(s) ==
  LET hits == {i \in 1 .. Len(s) : s[i] \in Headers}
  IN IF hits = {} THEN << s >>
     ELSE LET i == CHOOSE h \in hits : \A j \in hits : h <= j
          IN << SubSeq(s, 1, i - 1) >>
             \o SplitByReasoning(SubSeq(s, i + 1, Len(s)))

\* reasoningSteps.forEach(step => tempAnswer = tempAnswer.replace(step, "").trim())
RECURSIVE TempAnswer(_, _)
TempAnswer(temp, sts) ==
  IF sts = << >> THEN temp
  ELSE TempAnswer(Trim(Replace(temp, Head(sts))), Tail(sts))

\* mutation of WithHeader: the steps are looked for in the whole response
WithHeaderWholeText(parts) ==
  [finalAnswer |-> Trim(parts[1]),
   reasoningSteps |->
     extractStepsFromResponse(Trim(Join(parts, << " " >>)))]

\* lines 159-162: a header was found
WithHeader(parts) ==
  [finalAnswer |-> Trim(parts[1]),
   reasoningSteps |->
     extractStepsFromResponse(Trim(Join(Tail(parts), << " " >>)))]

\* mutation of WithoutHeader: the residual is adopted only when the response
\* does not begin with a step prefix
WithoutHeaderStrict(full) ==
  LET sts == extractStepsFromResponse(full)
      tempAnswer == TempAnswer(full, sts)
  IN [finalAnswer |->
        IF sts # << >> /\ ~startStepRegex(full)
        THEN Trim(tempAnswer) ELSE full,
      reasoningSteps |-> sts]

\* lines 163-173: no header
WithoutHeader(full) ==
  LET sts == extractStepsFromResponse(full)
      tempAnswer == TempAnswer(full, sts)
  IN [finalAnswer |->
        IF /\ sts # << >>
           /\ \/ ~startStepRegex(full)
              \/ 2 * Len(tempAnswer) > Len(full)
        THEN Trim(tempAnswer) ELSE full,
      reasoningSteps |-> sts]

\* lines 153-174: finalAnswer and reasoningSteps after the parsing
Parse(full) ==
  LET splitByReasoning == SplitByReasoning(full)
  IN IF Len(splitByReasoning) > 1 THEN WithHeader(splitByReasoning)
     ELSE WithoutHeader(full)

\* lines 177-179: an empty finalAnswer gives way to the full response
OrFullResponse(finalAnswer, full) ==
  IF finalAnswer = << >> /\ full # << >> THEN full ELSE finalAnswer

CompletedNoAnswer ==
  << "The web browsing task was completed, but a final answer could not be formulated based on the retrieved content." >>
NoContentNoAnswer ==
  << "The web browsing task did not yield any content, and no final answer could be formulated." >>

\* mutation of OrFallbackSentence: the two sentences are exchanged
OrFallbackSentenceSwapped(finalAnswer, actualWebSearchResults) ==
  IF finalAnswer = << >> /\ actualWebSearchResults # << >>
  THEN NoContentNoAnswer
  ELSE IF finalAnswer = << >> /\ actualWebSearchResults = << >>
  THEN CompletedNoAnswer
  ELSE finalAnswer

\* lines 182-186
OrFallbackSentence(finalAnswer, actualWebSearchResults) ==
  IF finalAnswer = << >> /\ actualWebSearchResults # << >>
  THEN CompletedNoAnswer
  ELSE IF finalAnswer = << >> /\ actualWebSearchResults = << >>
  THEN NoContentNoAnswer
  ELSE finalAnswer

\* lines 153-186: the output of the run
FinalAnswer(full, actualWebSearchResults) ==
  OrFallbackSentence(OrFullResponse(Parse(full).finalAnswer, full),
                     actualWebSearchResults)

\* mutation of BrowserUseSteps: the remote steps are not copied
BrowserUseStepsDropped(log, remoteSteps, index) == log

\* lines 139-143: the steps of the remote task, copied
RECURSIVE BrowserUseSteps(_, _, _)
BrowserUseSteps(log, remoteSteps, index) ==
  IF index > Len(remoteSteps) THEN log
  ELSE BrowserUseSteps(
         addStep(log, "browser_use_step_", index,
                 << "(Browser-Use) " >> \o remoteSteps[index]),
         remoteSteps, index + 1)

\* mutation of ReasoningSteps: the note is added whatever was extracted
ReasoningStepsAndNote(log, sts, index) ==
  addStep(log, "reasoning_steps_note", 0, << "No separate reasoning steps" >>)

\* lines 192-198: the reasoning steps, or the note that there are none
RECURSIVE ReasoningSteps(_, _, _)
ReasoningSteps(log, sts, index) ==
  IF sts = << >>
  THEN addStep(log, "reasoning_steps_note", 0,
               << "No separate reasoning steps" >>)
  ELSE IF index > Len(sts) THEN log
  ELSE ReasoningSteps(addStep(log, "reasoning_step_", index, sts[index]),
                      sts, index + 1)

\* what the provider's task can be when waitForCompletion resolves: a
\* terminal status, an output text or none, its steps, an error or none
RemoteDescriptions == { << "x" >>, << "y" >> }
RemoteDetails ==
  { d \in [status : Terminal,
           output : { << >>, << "w" >> },
           steps : UNION { [1 .. n -> RemoteDescriptions] :
                            n \in 0 .. MaxRemoteSteps },
           error : { << >>, << "boom" >> }] :
      d.status # "failed" => d.error = << >> }
\* messages of the errors a stage can throw
ErrorMessages == { << "Failed to fetch" >>, << "Failed to create task: 500 " >> }

\* mutation of Catch: the error leaves run
Rethrow(log, message) ==
  /\ steps' = log
  /\ thrown' = message
  /\ returned' = returned
  /\ apc' = "rejected"

\* lines 210-226: catch (error)
Catch(log, message) ==
  /\ steps' = addStep(log, "error", 0, << "Task failed: " >> \o message)
  /\ thrown' = message
  /\ returned' = [status |-> "failed", output |-> << >>,
                  error |-> [message |-> message, code |-> "EXECUTION_ERROR"]]
  /\ apc' = "returned"

\* run() up to the first llm.invoke
Run ==
  /\ apc = "idle"
  /\ steps' = << Step("initialize", 0, << "Starting task" >>),
                 Step("understand_question", 0, << "Received question" >>),
                 Step("formulate_search_query_start", 0,
                      << "(Optional) Formulating a web search query" >>) >>
  /\ llmCalls' = llmCalls + 1
  /\ apc' = "query"
  /\ UNCHANGED <<browserTaskDetails, thrown, finalAnswerAndSteps, candidate,
                 reasoningSteps, returned, epc, response, extracted,
                 trackerVars, waitVars, pageVars>>

\* the search query arrived: up to browserUseClient.createTask
RunQueryOk ==
  /\ apc = "query"
  /\ steps' = addStep(addStep(addStep(steps,
                "formulate_search_query_complete", 0,
                << "(Optional) Generated search query" >>),
                "formulate_browser_task", 0,
                << "Formulated task for Browser-Use service" >>),
                "execute_browser_task_start", 0,
                << "Requesting Browser-Use service to perform task." >>)
  /\ apc' = "create"
  /\ UNCHANGED <<llmCalls, browserTaskDetails, thrown, finalAnswerAndSteps,
                 candidate, reasoningSteps, returned, epc, response,
                 extracted, trackerVars, waitVars, pageVars>>

\* the task was created: up to browserUseClient.waitForCompletion
RunCreateOk ==
  /\ apc = "create"
  /\ steps' = addStep(steps, "execute_browser_task_created", 0,
                      << "Browser-Use task created" >>)
  /\ apc' = "wait"
  /\ UNCHANGED <<llmCalls, browserTaskDetails, thrown, finalAnswerAndSteps,
                 candidate, reasoningSteps, returned, epc, response,
                 extracted, trackerVars, waitVars, pageVars>>

\* mutation of RemoteFailed: a failed remote task is treated as any other
RemoteFailedIgnored(d) == FALSE

\* (a stopped task taken for a failed one, for C28)
RemoteFailedOrStopped(d) == d.status \in {"failed", "stopped"}

\* line 130
RemoteFailed(d) == d.status = "failed"

\* waitForCompletion resolved with d: a failed task is logged and thrown to
\* the catch, any other goes on up to the second llm.invoke
RunWaitOk(d) ==
  /\ apc = "wait"
  /\ browserTaskDetails' = d
  /\ IF RemoteFailed(d)
     THEN /\ Catch(addStep(steps, "execute_browser_task_failed", 0,
                           << "Browser-Use task failed." >>),
                   << "Browser-Use task failed: " >>
                   \o (IF d.error # << >> THEN d.error
                       ELSE << "Unknown error" >>))
          /\ UNCHANGED llmCalls
     ELSE /\ steps' = addStep(
                        BrowserUseSteps(
                          addStep(steps, "execute_browser_task_complete", 0,
                                  << "Browser-Use task completed." >>),
                          d.steps, 1),
                        "formulate_answer_start", 0,
                        << "Formulating the final answer" >>)
          /\ llmCalls' = llmCalls + 1
          /\ apc' = "answer"
          /\ UNCHANGED <<thrown, returned>>
  /\ UNCHANGED <<finalAnswerAndSteps, candidate, reasoningSteps, epc,
                 response, extracted, trackerVars, waitVars, pageVars>>

\* the answer of the second llm.invoke arrived: lines 149-209
RunAnswerOk(content) ==
  /\ apc = "answer"
  /\ LET full == Trim(content)
         parsed == Parse(full)
         finalAnswer == FinalAnswer(full, browserTaskDetails.output)
     IN /\ finalAnswerAndSteps' = full
        /\ candidate' = parsed.finalAnswer
        /\ reasoningSteps' = parsed.reasoningSteps
        /\ steps' = addStep(
                      ReasoningSteps(
                        addStep(steps, "formulate_answer_complete", 0,
                                << "Final answer formulated." >>),
                        parsed.reasoningSteps, 1),
                      "complete", 0, << "Task completed successfully." >>)
        /\ returned' = [status |-> "finished", output |-> finalAnswer,
                        error |-> NoErrorInfo]
  /\ apc' = "returned"
  /\ UNCHANGED <<llmCalls, browserTaskDetails, thrown, epc, response,
                 extracted, trackerVars, waitVars, pageVars>>

\* a stage throws: the awaited request of position at rejects with message
RunFail(at, message) ==
  /\ apc = at
  /\ Catch(steps, message)
  /\ UNCHANGED <<llmCalls, browserTaskDetails, finalAnswerAndSteps, candidate,
                 reasoningSteps, epc, response, extracted, trackerVars,
                 waitVars, pageVars>>
RunQueryFail(message) == RunFail("query", message)
RunCreateFail(message) == RunFail("create", message)
RunWaitFail(message) == RunFail("wait", message)
RunAnswerFail(message) == RunFail("answer", message)

\* the answers of the language model in the runs of the whole pipeline
Answers ==
  { << >>, ScenarioA, ScenarioB, << "Key steps:", "\n", "-", " ", "a" >>,
    << "a", "\n", "-", " ", "a", "\n", "*", " ", "b" >>, << "Steps Taken:" >> }

\* the whole pipeline, every stage succeeding or failing
NextRun ==
  \/ Run
  \/ RunQueryOk
  \/ \E m \in ErrorMessages : RunQueryFail(m)
  \/ RunCreateOk
  \/ \E m \in ErrorMessages : RunCreateFail(m)
  \/ \E d \in RemoteDetails : RunWaitOk(d)
  \/ \E m \in ErrorMessages : RunWaitFail(m)
  \/ \E c \in Answers : RunAnswerOk(c)
  \/ \E m \in ErrorMessages : RunAnswerFail(m)
SpecRun == Init /\ [][NextRun]_vars

\* the answer synthesis: every stage succeeds, the remote task has no steps,
\* the language model answers with any text
WithoutSteps(d) == d.status # "failed" /\ d.steps = << >>
NextAnswer ==
  \/ Run
  \/ RunQueryOk
  \/ RunCreateOk
  \/ \E d \in RemoteDetails : WithoutSteps(d) /\ RunWaitOk(d)
  \/ \E c \in Texts : RunAnswerOk(c)
SpecAnswer == Init /\ [][NextAnswer]_vars

NextAgent == NextRun \/ NextAnswer \/ NextExtract
Next == NextTracker \/ NextWait \/ NextAgent
Spec == Init /\ [][Next]_vars

\* ------------------------------------------------- claims, Agent.run
\* the actions of the entries of the step log, in order
Actions == [i \in 1 .. Len(steps) |-> steps[i].action]
\* positions of the entries of the log with the given action
Entries(action) == {i \in 1 .. Len(steps) : steps[i].action = action}

\* C11: when the remote task waitForCompletion returned has status 'failed',
\* run returns status 'failed' with error.code 'EXECUTION_ERROR', the second
\* LLM call is never made, and in the step log the one
\* 'execute_browser_task_failed' entry is immediately followed by the 'error'
\* entry, which is the last entry.
C11_RemoteFailedAborts ==
  browserTaskDetails.status = "failed"
    => /\ apc = "returned"
       /\ returned.status = "failed"
       /\ returned.error.code = "EXECUTION_ERROR"
       /\ llmCalls = 1
       /\ Len(steps) >= 2
       /\ Entries("execute_browser_task_failed") = {Len(steps) - 1}
       /\ Entries("error") = {Len(steps)}
       /\ Entries("formulate_answer_start") = {}

\* the remote task failed with an error message
C11_Witness ==
  /\ apc = "returned"
  /\ browserTaskDetails.status = "failed"
  /\ browserTaskDetails.error = << "boom" >>

\* C12: run never rejects; when a stage throws, run returns status 'failed',
\* error.message the message of the thrown error, error.code
\* 'EXECUTION_ERROR', and the step log is the steps recorded before the
\* failure followed by one 'error' step.
C12_NeverRejects ==
  /\ [](apc # "rejected")
  /\ [](thrown # << >>
          => /\ apc = "returned"
             /\ returned.status = "failed"
             /\ returned.error = [message |-> thrown,
                                  code |-> "EXECUTION_ERROR"]
             /\ Entries("error") = {Len(steps)}
             /\ Entries("complete") = {})
  /\ [][(thrown = << >> /\ thrown' # << >>)
          => LET recorded == Len(steps') - 1
             IN /\ recorded >= Len(steps)
                /\ SubSeq(steps', 1, Len(steps)) = steps
                /\ steps'[recorded + 1] =
                     Step("error", 0, << "Task failed: " >> \o thrown')
                /\ \/ recorded = Len(steps)
                   \/ /\ recorded = Len(steps) + 1
                      /\ browserTaskDetails'.status = "failed"
                      /\ steps'[recorded].action
                           = "execute_browser_task_failed"]_vars

\* the answer synthesis call failed, after the two calls were made
C12_Witness ==
  /\ apc = "returned"
  /\ llmCalls = 2
  /\ thrown = << "Failed to fetch" >>
  /\ returned.status = "failed"

\* the entries every successful run records before and after the remote steps
BeforeRemoteSteps ==
  << "initialize", "understand_question", "formulate_search_query_start",
     "formulate_search_query_complete", "formulate_browser_task",
     "execute_browser_task_start", "execute_browser_task_created",
     "execute_browser_task_complete" >>
Reasoning == {"reasoning_step_", "reasoning_steps_note"}

\* C13: on success run returns status 'finished' and the step log is, in
\* this order: the eight entries from initialize to
\* execute_browser_task_complete, browser_use_step_1..n copying the n steps
\* of the remote task in the remote order, formulate_answer_start,
\* formulate_answer_complete, the reasoning entries, and 'complete' last.
C13_SuccessOrder ==
  (apc = "returned" /\ thrown = << >>)
    => LET remoteSteps == browserTaskDetails.steps
           n == Len(remoteSteps)
           b == Len(BeforeRemoteSteps)
       IN /\ returned.status = "finished"
          /\ Len(steps) >= b + n + 4
          /\ SubSeq(Actions, 1, b) = BeforeRemoteSteps
          /\ \A i \in 1 .. n :
               steps[b + i] = Step("browser_use_step_", i,
                                   << "(Browser-Use) " >> \o remoteSteps[i])
          /\ Actions[b + n + 1] = "formulate_answer_start"
          /\ Actions[b + n + 2] = "formulate_answer_complete"
          /\ \A i \in (b + n + 3) .. (Len(steps) - 1) :
               Actions[i] \in Reasoning
          /\ Actions[Len(steps)] = "complete"

\* two remote steps, y before x, and the answer of scenario A
C13_Witness ==
  /\ apc = "returned"
  /\ returned.status = "finished"
  /\ browserTaskDetails.steps = << << "y" >>, << "x" >> >>
  /\ finalAnswerAndSteps = ScenarioA

\* C14: on success the step log has either one 'reasoning_step_i' entry per
\* extracted reasoning step, i = 1..k in the order of extraction and k >= 1,
\* or, when nothing was extracted, exactly one 'reasoning_steps_note' entry;
\* never both and never neither.
C14_StepsOrNote ==
  (apc = "returned" /\ thrown = << >>)
    => LET found == Entries("reasoning_step_")
           notes == Entries("reasoning_steps_note")
           k == Len(reasoningSteps)
           first == Len(steps) - (IF k = 0 THEN 1 ELSE k)
       IN /\ reasoningSteps = extractStepsFromResponse(
               IF Len(SplitByReasoning(finalAnswerAndSteps)) > 1
               THEN Trim(Join(Tail(SplitByReasoning(finalAnswerAndSteps)),
                              << " " >>))
               ELSE finalAnswerAndSteps)
          /\ IF k = 0
             THEN found = {} /\ notes = {first}
             ELSE /\ notes = {}
                  /\ found = first .. (Len(steps) - 1)
                  /\ \A i \in 1 .. k :
                       steps[first + i - 1]
                         = Step("reasoning_step_", i, reasoningSteps[i])

\* nothing follows the header: the note is recorded
C14_Witness ==
  /\ apc = "returned"
  /\ finalAnswerAndSteps = << "a", "\n", "Reasoning steps:" >>
  /\ Entries("reasoning_steps_note") # {}

\* ------------------------------------- claims, the answer and its steps
\* run returned a finished task
Succeeded == apc = "returned" /\ thrown = << >>
\* the response holds a header phrase; the position of the first one
HasHeader == \E i \in 1 .. Len(finalAnswerAndSteps) :
               finalAnswerAndSteps[i] \in Headers
FirstHeader ==
  CHOOSE i \in 1 .. Len(finalAnswerAndSteps) :
    /\ finalAnswerAndSteps[i] \in Headers
    /\ \A j \in 1 .. (i - 1) : finalAnswerAndSteps[j] \notin Headers
BeforeHeader == SubSeq(finalAnswerAndSteps, 1, FirstHeader - 1)
\* the text after the first header, a space in the place of every later header
AfterHeader ==
  [j \in 1 .. (Len(finalAnswerAndSteps) - FirstHeader) |->
     IF finalAnswerAndSteps[FirstHeader + j] \in Headers THEN " "
     ELSE finalAnswerAndSteps[FirstHeader + j]]
\* the output the remote task produced, if any
ActualWebSearchResults == browserTaskDetails.output

\* C15 as stated: whenever the extraction yields an empty final answer, the
\* output is the sentence 'The web browsing task was completed, but ...' if
\* the remote output is non-empty, and the sentence 'The web browsing task
\* did not yield any content, ...' if the remote output is empty or absent.
C15_EmptyAnswerSentence ==
  (Succeeded /\ candidate = << >>)
    => returned.output = (IF ActualWebSearchResults # << >>
                          THEN CompletedNoAnswer ELSE NoContentNoAnswer)

\* C15 amended: the two sentences are the output when the response of the
\* language model itself is empty; an empty final answer extracted from a
\* non-empty response is replaced by the whole response, and a non-empty
\* final answer is the output.
C15_EmptyResponseSentence ==
  Succeeded
    => returned.output =
         (IF finalAnswerAndSteps = << >>
          THEN (IF ActualWebSearchResults # << >>
                THEN CompletedNoAnswer ELSE NoContentNoAnswer)
          ELSE IF candidate = << >> THEN finalAnswerAndSteps
          ELSE candidate)

\* an empty response after a remote task with output
C15_Witness ==
  /\ Succeeded
  /\ finalAnswerAndSteps = << >>
  /\ ActualWebSearchResults = << "w" >>
  /\ returned.output = CompletedNoAnswer

NoStepLine ==
  \A line \in {Split(finalAnswerAndSteps, << "\n" >>)[i] :
                 i \in 1 .. Len(Split(finalAnswerAndSteps, << "\n" >>))} :
    ~HasStepPrefix(line)

\* C17: for a non-empty response with no header phrase and no line beginning
\* with a numbered or bulleted prefix, the final answer equals the response
\* and the list of reasoning steps is empty.
C17_PlainAnswerNoSteps ==
  (Succeeded /\ finalAnswerAndSteps # << >> /\ ~HasHeader /\ NoStepLine)
    => /\ returned.output = finalAnswerAndSteps
       /\ reasoningSteps = << >>

C27_LateResponseDropped ==
  [][\A p \in polls :
       PollOk(p) => (task # NoTask /\ task'.id = task.id)]_vars

\* C28: waitForCompletion returns for 'stopped' as for any terminal status,
\* and Agent.run treats a stopped remote task as a success: it records
\* execute_browser_task_complete, makes the second LLM call and, that call
\* answered, returns 'finished' with a non-empty output.  It returns 'failed'
\* only when a stage threw or the remote status was 'failed'.
C28_StoppedIsSuccess ==
  /\ WaitDone("stopped")
  /\ browserTaskDetails.status = "stopped"
       => /\ Entries("execute_browser_task_complete") # {}
          /\ Entries("execute_browser_task_failed") = {}
          /\ llmCalls = 2
          /\ Succeeded => /\ returned.status = "finished"
                          /\ returned.output # << >>
  /\ returned.status = "failed"
       => \/ thrown \in ErrorMessages
          \/ browserTaskDetails.status = "failed"

\* a run returned 'finished' after the remote task was stopped with no output
C28_Witness ==
  /\ Succeeded
  /\ browserTaskDetails.status = "stopped"
  /\ browserTaskDetails.output = << >>
  /\ returned.status = "finished"
  /\ Entries("execute_browser_task_complete") # {}

\* One task, with pause, resume and stop called at any time, also while no
\* task is shown; every control request fails.
NextFailing ==
  \/ Render
  \/ CreateTask(TRUE, TRUE)
  \/ \E c \in BagToSet(calls) : FirstCreateTaskOk(c)
  \/ \E t \in active : TickInTurn(t)
  \/ \E p \in polls : PollOk(p)
  \/ PauseTask
  \/ ResumeTask
  \/ StopTask
  \/ \E c \in BagToSet(calls) : ControlFail(c)
  \/ ClearTask
SpecFailing == Init /\ [][NextFailing]_vars

\* C29: when the request of pauseTask, resumeTask or stopTask fails, the
\* handler leaves the task and the polling timer as they are, sets the error
\* 'Failed to pause task' / 'Failed to resume task' / 'Failed to stop task'
\* and sets loading false.  Called from a render that shows no task, the
\* handler issues no request, sets the error 'No active task to ...' and does
\* not touch loading.
C29_FailedControl ==
  [][/\ \A c \in BagToSet(calls) :
          ControlFail(c)
            => /\ task' = task
               /\ pollingInterval' = pollingInterval
               /\ active' = active
               /\ intervals' = intervals
               /\ error' = (IF c.kind = "pause" THEN "Failed to pause task"
                            ELSE IF c.kind = "resume"
                              THEN "Failed to resume task"
                            ELSE "Failed to stop task")
               /\ loading' = FALSE
     /\ \A kind \in {"pause", "resume", "stop"} :
          (Control(kind) /\ rendered.id = 0)
            => /\ calls' = calls
               /\ sent' = sent
               /\ provider' = provider
               /\ error' = (IF kind = "pause" THEN "No active task to pause"
                            ELSE IF kind = "resume"
                              THEN "No active task to resume"
                            ELSE "No active task to stop")
               /\ loading' = loading
               /\ task' = task
               /\ active' = active]_vars

\* a stop failed while the task is running and polled
C29_Witness ==
  /\ error = "Failed to stop task"
  /\ task.status = "running"
  /\ pollingInterval # NoTimer
  /\ pollingInterval \in active
  /\ loading = FALSE

\* ------------------------------------ the answers to POST /run-task
\* A message is the sequence of its characters, with each fixed phrase of
\* the code (none holds a digit) as one symbol.
MaxBody == 3
DigitOf(d) == << "0", "1", "2", "3", "4", "5", "6", "7", "8", "9" >>[d + 1]
\* `${response.status}` of a three-digit status
StatusText(n) ==
  << DigitOf(n \div 100), DigitOf((n \div 10) % 10), DigitOf(n % 10) >>
\* String.prototype.includes
Includes(s, pat) == IndexOf(s, pat) # 0

\* BrowserUseClient.createTask, !response.ok: the message of the error thrown
ClientCreateError(a) ==
  IF a.status = 401 \/ a.status = 403
  THEN << "Authentication failed: " >> \o StatusText(a.status)
       \o << " - Please check your API key" >>
  ELSE << "Failed to create task: " >> \o StatusText(a.status) \o << " " >>
       \o a.statusText \o << " - " >> \o a.body

\* useBrowserTask.createTask, catch: the error set for a thrown message
HookCreateError(errorMessage) ==
  IF Includes(errorMessage, << "4", "0", "1" >>)
  THEN << "Authentication failed: Invalid API key" >>
  ELSE IF Includes(errorMessage, << "4", "2", "9" >>)
  THEN << "Rate limit exceeded: Too many requests" >>
  ELSE IF Includes(errorMessage, << "4", "0", "2" >>)
  THEN << "Insufficient credits: Please check your Browser-Use account balance" >>
  ELSE << "Failed to create task: " >> \o errorMessage

\* the answers of the provider that are not ok: a status, a reason phrase
\* or none, a body of up to MaxBody characters
Bodies ==
  UNION { [1 .. n -> {"4", "0", "1", "2", "9", "x"}] : n \in 0 .. MaxBody }
Refusals == [status : {400, 401, 402, 403, 404, 429, 500, 503},
             statusText : { << >>, << "Error" >> },
             body : Bodies]

InitRefusal ==
  /\ InitTracker /\ InitWait /\ InitAgent
  /\ InitKeys /\ InitManager /\ InitInput
  /\ hpc = "answered"
  /\ httpAnswer \in Refusals
  /\ shown = << >>

\* createTask after the await, the provider having refused the task
CreateTaskRefused ==
  /\ hpc = "answered"
  /\ hpc' = "shown"
  /\ shown' = HookCreateError(ClientCreateError(httpAnswer))
  /\ UNCHANGED <<httpAnswer, trackerVars, waitVars, agentVars, keyVars,
                 facadeVars, inputVars>>
SpecRefusal == InitRefusal /\ [][CreateTaskRefused]_vars

\* the class of an error shown, and the class the status stands for
Class(e) ==
  IF \/ e = << "Authentication failed: Invalid API key" >>
     \/ /\ Len(e) >= 2
        /\ e[1] = "Failed to create task: "
        /\ e[2] = "Authentication failed: "
    THEN "authentication"
  ELSE IF e = << "Rate limit exceeded: Too many requests" >> THEN "rate limit"
  ELSE IF e = << "Insufficient credits: Please check your Browser-Use account balance" >>
    THEN "insufficient credits"
  ELSE "generic"
ClassOfStatus(n) ==
  IF n \in {401, 403} THEN "authentication"
  ELSE IF n = 429 THEN "rate limit"
  ELSE IF n = 402 THEN "insufficient credits"
  ELSE "generic"

\* C24: the error shown for a refused createTask is of the class of the HTTP
\* status (401/403 authentication, 429 rate limit, 402 insufficient credits,
\* any other generic), whatever the body; a generic error carries the status
\* and the body.
C24_ClassByStatus ==
  hpc = "shown"
    => /\ Class(shown) = ClassOfStatus(httpAnswer.status)
       /\ Class(shown) = "generic"
            => /\ Includes(shown, StatusText(httpAnswer.status))
               /\ Includes(shown, httpAnswer.body)

\* ------------------------------------------------- the key field
MinKeyBody == 10
MaxKeyBody == 11
\* [a-zA-Z0-9_-]
KeyChars ==
  { "a", "b", "c", "d", "e", "f", "g", "h", "i", "j", "k", "l",
    "m", "n", "o", "p", "q", "r", "s", "t", "u", "v", "w", "x",
    "y", "z",
    "A", "B", "C", "D", "E", "F", "G", "H", "I", "J", "K", "L",
    "M", "N", "O", "P", "Q", "R", "S", "T", "U", "V", "W", "X",
    "Y", "Z",
    "_", "-" } \cup Digits

\* (a format without the prefix, for C26)
ValidateAnyPrefix(key) ==
  /\ Len(key) >= 3 + MinKeyBody
  /\ \A i \in 1 .. Len(key) : key[i] \in KeyChars

\* validateApiKey: /^bu_[a-zA-Z0-9_-]{10,}$/.test(key)
validateApiKey(key) ==
  /\ Len(key) >= 3 + MinKeyBody
  /\ SubSeq(key, 1, 3) = << "b", "u", "_" >>
  /\ \A i \in 4 .. Len(key) : key[i] \in KeyChars

\* ApiKeyInput.handleApiKeyChange: the field holds the typed text, trimmed
HandleApiKeyChange(text) ==
  /\ keyInput' = Trim(text)
  /\ isSaved' = FALSE
  /\ UNCHANGED <<localStorage, notified, keyVars, facadeVars, answerVars,
                 trackerVars, waitVars, agentVars>>

\* ApiKeyInput.saveApiKey, with Home.handleApiKeyChange as onApiKeyChange:
\* an empty or ill-formed key only raises a toast
SaveApiKey ==
  LET trimmedKey == Trim(keyInput)
  IN /\ IF trimmedKey = << >> \/ ~validateApiKey(trimmedKey)
        THEN UNCHANGED <<localStorage, notified, apiKey, isSaved>>
        ELSE /\ localStorage' = trimmedKey
             /\ notified' = notified \cup {trimmedKey}
             /\ apiKey' = trimmedKey
             /\ isSaved' = TRUE
     /\ UNCHANGED <<keyInput, clientApiKey, sent, facadeVars, answerVars,
                    trackerVars, waitVars, agentVars>>

\* the texts typed: a prefix or none, a body of about MinKeyBody characters
\* with one character of any kind in it, white space around
KeyBody(n, c, i) == [j \in 1 .. n |-> IF j = i THEN c ELSE "a"]
KeyBodies ==
  { KeyBody(n, c, i) : n \in (MinKeyBody - 2) .. MaxKeyBody,
                       c \in {"a", "Z", "7", "_", "-", "!", " "},
                       i \in {1, MinKeyBody - 2} }
ScenarioBadKey == << "a", "b", "c", "1", "2", "3" >>
KeyTexts ==
  { l \o p \o b \o r :
      l \in { << >>, << " " >>, << "\n" >> },
      p \in { << "b", "u", "_" >>, << "b", "u", "-" >>, << "B", "u", "_" >>,
              << "a", "b", "c" >>, << >> },
      b \in KeyBodies,
      r \in { << >>, << " " >>, << "\n" >> } }
    \cup { << >>, << " " >>, ScenarioBadKey, ScenarioKey }

\* The key field: texts are typed until a key is saved.
TypeFirst(text) == notified = {} /\ HandleApiKeyChange(text)
NextInput ==
  \/ \E text \in KeyTexts : TypeFirst(text)
  \/ SaveApiKey
SpecInput == Init /\ [][NextInput]_vars

\* 'bu_' followed by at least ten characters from letters, digits, '_', '-'
WellFormed(k) ==
  \E n \in MinKeyBody .. Len(k) :
    /\ Len(k) = 3 + n
    /\ k[1] = "b" /\ k[2] = "u" /\ k[3] = "_"
    /\ \A i \in 1 .. n : k[3 + i] \in KeyChars

\* C26: saveApiKey stores the trimmed key under 'browserUseApiKey' and calls
\* onApiKeyChange with it if it is 'bu_' followed by at least 10 characters
\* from letters, digits, '_' and '-'; otherwise it stores nothing and
\* notifies no one.  'abc123' is rejected and 'bu_AbC12345678' accepted.
C26_SavedOnlyIfWellFormed ==
  /\ validateApiKey(ScenarioKey)
  /\ ~validateApiKey(ScenarioBadKey)
  /\ [][SaveApiKey
          => IF WellFormed(Trim(keyInput))
             THEN /\ localStorage' = Trim(keyInput)
                  /\ notified' = notified \cup {Trim(keyInput)}
                  /\ apiKey' = Trim(keyInput)
             ELSE UNCHANGED <<localStorage, notified, apiKey>>]_vars
  /\ [](/\ localStorage # NoItem => WellFormed(localStorage)
        /\ \A k \in notified : WellFormed(k)
        /\ ScenarioBadKey \notin notified)

\* the key of scenario E was typed and saved
C26_Witness ==
  /\ localStorage = ScenarioKey
  /\ notified = {ScenarioKey}
  /\ isSaved

\* ------------------------------------------- useOpenAIBrowserTask
MaxRuns == 2
\* String.prototype.trim() === '' of a text
Blank(text) == Trim(text) = << >>
\* the id Agent.run gives its result ('task-' + Date.now()): no provider id
AgentTaskId == MaxTasks + 1
\* what runOpenAIBrowserTask resolves with (Agent.run never rejects)
RunResults ==
  { [id |-> AgentTaskId, status |-> st, steps |-> 0] :
      st \in {"finished", "failed"} }

\* (runTask that starts the pipeline whatever the text, for C25)
OpenAIRunTaskUnchecked(key, text) ==
  /\ runs < MaxRuns
  /\ openAIError' = NoError
  /\ openAILoading' = TRUE
  /\ runs' = runs + 1
  /\ UNCHANGED <<openAITaskDetails, trackerVars, waitVars, agentVars,
                 keyVars, inputVars, answerVars>>

\* runTask, up to the await of runOpenAIBrowserTask, as the facade calls it
OpenAIRunTask(key, text) ==
  /\ IF key = << >>
       THEN /\ openAIError'
                 = "Failed to run task: OpenAI API key is missing or invalid"
            /\ openAILoading' = FALSE
            /\ runs' = runs
     ELSE IF text = << >> \/ Blank(text)
       THEN /\ openAIError' = "Failed to run task: Task description is required"
            /\ openAILoading' = FALSE
            /\ runs' = runs
     ELSE /\ runs < MaxRuns
          /\ openAIError' = NoError
          /\ openAILoading' = TRUE
          /\ runs' = runs + 1
  /\ UNCHANGED <<openAITaskDetails, trackerVars, waitVars, agentVars,
                 keyVars, inputVars, answerVars>>
\* runTask called on the hook itself
RunTask(key, text) ==
  /\ OpenAIRunTask(key, text)
  /\ UNCHANGED <<useOpenAI, usingOpenAI, executing, executed>>

\* runTask after the await: the pipeline resolved
RunTaskOk(taskResult) ==
  /\ runs > 0
  /\ runs' = runs - 1
  /\ openAITaskDetails' = taskResult
  /\ openAILoading' = FALSE
  /\ UNCHANGED <<openAIError, useOpenAI, usingOpenAI, executing, executed,
                 trackerVars, waitVars, agentVars, keyVars, inputVars,
                 answerVars>>

\* runTask after the await: createOpenAIBrowserAgent threw
RunTaskFail ==
  /\ runs > 0
  /\ runs' = runs - 1
  /\ openAIError'
       = "Failed to run task: Browser-Use service API key is required"
  /\ openAILoading' = FALSE
  /\ UNCHANGED <<openAITaskDetails, useOpenAI, usingOpenAI, executing,
                 executed, trackerVars, waitVars, agentVars, keyVars,
                 inputVars, answerVars>>

\* clearResult
ClearResult ==
  /\ openAITaskDetails' = NoTask
  /\ openAIError' = NoError
  /\ UNCHANGED <<openAILoading, runs, useOpenAI, usingOpenAI, executing,
                 executed, trackerVars, waitVars, agentVars, keyVars,
                 inputVars, answerVars>>

\* ------------------------------------------ useBrowserTaskManager
\* Home.toggleModelType: the flag the facade is rendered with changes
ToggleModelType ==
  /\ useOpenAI' = ~useOpenAI
  /\ UNCHANGED <<usingOpenAI, executing, executed, openAITaskDetails,
                 openAILoading, openAIError, runs, trackerVars, waitVars,
                 agentVars, keyVars, inputVars, answerVars>>

\* executeTask up to its await.  It throws, having done nothing, for a blank
\* description and, on the pipeline path, for a missing OpenAI key; it
\* chooses its path by the facade's own state.
ExecuteTask(taskDescription, openAIKey) ==
  IF Blank(taskDescription) \/ (usingOpenAI /\ openAIKey = << >>)
  THEN UNCHANGED vars
  ELSE IF usingOpenAI
  THEN /\ OpenAIRunTask(openAIKey, taskDescription)
       /\ executing' = executing \cup {TRUE}
       /\ executed' = executed \cup {[flag |-> useOpenAI, path |-> "runTask"]}
       /\ UNCHANGED <<useOpenAI, usingOpenAI>>
  ELSE /\ StandardCreateTask(~(apiKey = << >> \/ Blank(apiKey)), TRUE)
       /\ executing' = executing \cup {FALSE}
       /\ executed'
            = executed \cup {[flag |-> useOpenAI, path |-> "createTask"]}
       /\ UNCHANGED <<useOpenAI, usingOpenAI, openAITaskDetails,
                      openAILoading, openAIError, runs>>

\* executeTask after its await: setUsingOpenAI(true) on the pipeline path,
\* setUsingOpenAI(false) on the polling path
ExecuteTaskSettled(path) ==
  /\ path \in executing
  /\ IF path THEN runs = 0 ELSE InFlight("create") = {}
  /\ executing' = executing \ {path}
  /\ usingOpenAI' = path
  /\ UNCHANGED <<useOpenAI, executed, openAITaskDetails, openAILoading,
                 openAIError, runs, trackerVars, waitVars, agentVars,
                 keyVars, inputVars, answerVars>>

\* the facade's clearTask
ManagerClearTask == IF usingOpenAI THEN ClearResult ELSE ClearTask

\* what the facade returns
CurrentTask == IF usingOpenAI THEN openAITaskDetails ELSE task
TaskStatus(t) == IF t = NoTask THEN "null" ELSE t.status
CurrentStatus ==
  IF usingOpenAI /\ openAITaskDetails # NoTask
  THEN openAITaskDetails.status ELSE TaskStatus(task)
CurrentLoading == IF usingOpenAI THEN openAILoading ELSE loading
\* (the facade showing the tracker's error in either mode, for C22)
CurrentErrorOfTracker == error
CurrentError == IF usingOpenAI THEN openAIError ELSE error
Returned == [task |-> CurrentTask, status |-> CurrentStatus,
             loading |-> CurrentLoading, error |-> CurrentError]

\* The page: the facade mounted with either flag, the flag toggled, tasks
\* executed and cleared; pause, resume and stop are called while the facade
\* is in pipeline mode; every remote request succeeds.
TaskTexts == { << >>, << " " >>, << "g", "o" >> }
OpenAIKeys == { << >>, << "s", "k" >> }
InitManagerPage ==
  /\ InitTracker /\ InitWait /\ InitAgent
  /\ InitKeys /\ InitInput /\ InitAnswer
  /\ useOpenAI \in BOOLEAN
  /\ usingOpenAI = useOpenAI
  /\ executing = {}
  /\ executed = {}
  /\ openAITaskDetails = NoTask
  /\ openAILoading = FALSE
  /\ openAIError = NoError
  /\ runs = 0
InPipelineMode(kind) == usingOpenAI /\ Control(kind)
NextManager ==
  \/ ToggleModelType
  \/ \E text \in TaskTexts, key \in OpenAIKeys : ExecuteTask(text, key)
  \/ \E path \in BOOLEAN : ExecuteTaskSettled(path)
  \/ \E r \in RunResults : RunTaskOk(r)
  \/ RunTaskFail
  \/ Render
  \/ \E c \in BagToSet(calls) : FirstCreateTaskOk(c)
  \/ \E t \in active : TickInTurn(t)
  \/ \E p \in polls : PollOk(p)
  \/ InPipelineMode("pause")
  \/ InPipelineMode("resume")
  \/ InPipelineMode("stop")
  \/ ManagerClearTask
SpecManager == InitManagerPage /\ [][NextManager]_vars

\* C21: every executeTask call runs the path of the flag the caller passes
\* at that moment, the pipeline (runTask) when useOpenAI is true and the
\* polling path (createTask) when it is false; a call made after the flag
\* changed runs the other path.
C21_PathFollowsFlag ==
  \A e \in executed : e.path = (IF e.flag THEN "runTask" ELSE "createTask")

\* C22: while the facade is in pipeline mode, pauseTask, resumeTask and
\* stopTask issue no remote request and leave the task, status, loading and
\* error the facade returns unchanged.
C22_ControlsIdleInPipelineMode ==
  [][\A kind \in {"pause", "resume", "stop"} :
       (usingOpenAI /\ Control(kind))
         => /\ calls' = calls
            /\ polls' = polls
            /\ sent' = sent
            /\ provider' = provider
            /\ Returned' = Returned]_vars

\* pauseTask was called in pipeline mode with a result shown: the tracker
\* noted its refusal, the facade shows the result and no error
C22_Witness ==
  /\ usingOpenAI
  /\ error = "No active task to pause"
  /\ Returned.error = NoError
  /\ Returned.status = "finished"
  /\ sent = {}

\* C23: the task, status, loading and error the facade returns are always
\* those of the path the caller's flag selects, and when the flag changes
\* the other path's task becomes null and the polling path's timers are
\* cancelled.
C23_ActivePathShown ==
  /\ [](Returned
          = [task |-> IF useOpenAI THEN openAITaskDetails ELSE task,
             status |-> IF useOpenAI THEN TaskStatus(openAITaskDetails)
                        ELSE TaskStatus(task),
             loading |-> IF useOpenAI THEN openAILoading ELSE loading,
             error |-> IF useOpenAI THEN openAIError ELSE error])
  /\ [][useOpenAI' # useOpenAI
          => IF useOpenAI' THEN task' = NoTask /\ active' = {}
             ELSE openAITaskDetails' = NoTask]_vars

\* ------------------------------------------- the keys and the texts
\* createTask called with a task text, the hook rendered with apiKey
CreateTaskWith(text) ==
  CreateTask(~(apiKey = << >> \/ Blank(apiKey)), ~(text = << >> \/ Blank(text)))

\* the key the page is mounted with: none, white space, a key, a padded key
OtherKey == << "b", "u", "_" >> \o KeyBody(MinKeyBody, "a", 1)
InitKeyed ==
  /\ InitTracker /\ InitWait /\ InitAgent
  /\ InitManager /\ InitInput /\ InitAnswer
  /\ apiKey \in { << >>, << " " >>, ScenarioKey, << " " >> \o ScenarioKey }
  /\ clientApiKey = Trim(apiKey)
  /\ sent = {}

\* Local validation: tasks are created and run with any text, under any key
\* of the mount; every request succeeds.
NextValidation ==
  \/ Render
  \/ \E text \in TaskTexts : CreateTaskWith(text)
  \/ \E c \in BagToSet(calls) : FirstCreateTaskOk(c)
  \/ \E t \in active : TickInTurn(t)
  \/ \E p \in polls : PollOk(p)
  \/ \E key \in OpenAIKeys, text \in TaskTexts : RunTask(key, text)
  \/ \E r \in RunResults : RunTaskOk(r)
SpecValidation == InitKeyed /\ [][NextValidation]_vars

\* C25: createTask with an empty or whitespace-only API key or task text,
\* and runTask with an empty or whitespace-only task text, issue no request,
\* set the hook's error, leave the held task and the polling timer as they
\* are and end with loading false.
C25_ValidatedLocally ==
  [][/\ \A text \in TaskTexts :
          (CreateTaskWith(text) /\ (Blank(apiKey) \/ Blank(text)))
            => /\ calls' = calls
               /\ polls' = polls
               /\ sent' = sent
               /\ provider' = provider
               /\ error' \in
                    {"Failed to create task: API key is missing or invalid",
                     "Failed to create task: Task description is required"}
               /\ task' = task
               /\ pollingInterval' = pollingInterval
               /\ active' = active
               /\ loading' = FALSE
     /\ \A key \in OpenAIKeys, text \in TaskTexts :
          (RunTask(key, text) /\ Blank(text))
            => /\ runs' = runs
               /\ openAIError' \in
                    {"Failed to run task: OpenAI API key is missing or invalid",
                     "Failed to run task: Task description is required"}
               /\ openAITaskDetails' = openAITaskDetails
               /\ openAILoading' = FALSE]_vars

\* both hooks refused a blank text while a task is held and polled and a
\* result is shown
C25_Witness ==
  /\ error = "Failed to create task: Task description is required"
  /\ task # NoTask
  /\ pollingInterval \in active
  /\ loading = FALSE
  /\ openAIError = "Failed to run task: Task description is required"
  /\ openAITaskDetails # NoTask
  /\ openAILoading = FALSE

\* The key changed: a key is typed and saved once, tasks are created,
\* polled, paused, resumed and stopped one call at a time; every control
\* request fails.
InTurn(kind) == calls = EmptyBag /\ Control(kind)
NextKeyed ==
  \/ \E text \in {OtherKey \o << " " >>, ScenarioBadKey} : TypeFirst(text)
  \/ SaveApiKey
  \/ Render
  \/ CreateTaskWith(<< "g", "o" >>)
  \/ \E c \in BagToSet(calls) : FirstCreateTaskOk(c)
  \/ \E t \in active : TickInTurn(t)
  \/ \E p \in polls : PollOk(p)
  \/ InTurn("pause")
  \/ InTurn("resume")
  \/ InTurn("stop")
  \/ \E c \in BagToSet(calls) : ControlFail(c)
SpecKeyed == InitKeyed /\ [][NextKeyed]_vars

\* C30: the client is built once, with the key of the mount: its key never
\* changes, every request is sent with it whatever key the caller passes
\* later, while createTask validates the key the caller passes now.
C30_RequestsUseMountKey ==
  /\ clientApiKey = Trim(apiKey)
  /\ [][clientApiKey' = clientApiKey]_vars
  /\ [](sent \subseteq {clientApiKey})
  /\ [][CreateTaskWith(<< "g", "o" >>)
          => /\ Blank(apiKey)
                 <=> error'
                       = "Failed to create task: API key is missing or invalid"
             /\ (~Blank(apiKey) /\ clientApiKey # << >>)
                 => sent' = {clientApiKey}]_vars

\* the caller saved another key; a task was then created and polled and a
\* pause requested, all with the key of the mount
C30_Witness ==
  /\ apiKey = OtherKey
  /\ clientApiKey = ScenarioKey
  /\ sent = {ScenarioKey}
  /\ task # NoTask
  /\ task.status = "running"
  /\ InFlight("pause") # {}

====
